---------------------------- MODULE Spec2Model ----------------------------
(***************************************************************************)
(* Model of angr's ASLRDetector analysis (angr/analyses/aslr_detector.py). *)
(*                                                                         *)
(* The detector is built from a concrete execution trace.  Its constructor *)
(* walks the loader's objects and records, per object, the "slide" between *)
(* the address the object has in the trace and the address it has in angr. *)
(* Afterwards callers translate addresses in both directions and compare   *)
(* trace addresses with state addresses; compare_addr may add slides.      *)
(*                                                                         *)
(* A Python exception is modelled as a value: the constructor's exception  *)
(* ends in status "failed" (no detector object exists, so no method can be *)
(* called), a method's exception is the field exc of the call record.      *)
(***************************************************************************)
EXTENDS Integers, Sequences, FiniteSets, TLC

VARIABLES
    trace,          \* self._trace: sequence of addresses, index 0 is trace[1]
    objs,           \* loader attributes of each object: pic, _custom_base_addr, initializers
    lifter,         \* block.vex.constant_jump_targets of the block at each entry address
    aslr_slides,    \* self._aslr_slides: dict in insertion order, as a sequence of <<key, slide>>
    pc,             \* position of the loop of _identify_aslr_slides in all_objects (1-based)
    status,         \* "init" inside __init__, "ready" once constructed, "failed" if __init__ raised
    error,          \* the exception __init__ raised: [exc, obj]
    call,           \* the last method call on the constructed detector and its outcome
    search          \* the locals of one call of _locate_entry_point followed step by step

vars == <<trace, objs, lifter, aslr_slides, pc, status, error, call, search>>

----------------------------------------------------------------------------
(* Bounds of the model *)

\* the longest trace the constructor is explored on
MaxTraceLen == 3

\* the longest trace of a detector whose methods are explored as well
MaxSessionTraceLen == 2

(* Program constants *)

PageMask == 4095            \* 0xFFF
PageSize == PageMask + 1
StartThreshold == 262144    \* 0x40000
StopThreshold == 8192       \* 0x2000
IndirectJumpDistance == 4096 \* 0x1000

----------------------------------------------------------------------------
(* The loader: objects, their address ranges in angr, their entry addresses *)

None == "None"

all_objects == <<"main", "lib", "extern", "kernel">>

Objects == {all_objects[i] : i \in 1..Len(all_objects)}

extern_object == "extern"

kernel_object == "kernel"

\* obj.binary_basename.startswith("cle##")
IsPseudoObject(obj) == obj \in {extern_object, kernel_object}

is_main_bin(obj) == obj = "main"

MainEntry == 4194304        \* 0x400000
Init1 == 7340032            \* 0x700000
Init2 == 7340048            \* 0x700010

entry(obj) == MainEntry

min_addr(obj) ==
    CASE obj = "main"   -> 4194304      \* 0x400000
      [] obj = "lib"    -> 7340032      \* 0x700000
      [] obj = "extern" -> 8388608      \* 0x800000
      [] obj = "kernel" -> 8454144      \* 0x810000

max_addr(obj) ==
    CASE obj = "main"   -> 4198400      \* 0x401000
      [] obj = "lib"    -> 7372800      \* 0x708000
      [] obj = "extern" -> 8392704      \* 0x801000
      [] obj = "kernel" -> 8458240      \* 0x811000

\* obj.contains_addr(addr)
contains_addr(obj, addr) == min_addr(obj) <= addr /\ addr < max_addr(obj)

\* loader.find_object_containing(addr): the object mapped at addr, or None
find_object_containing(addr) ==
    IF \E o \in Objects : contains_addr(o, addr)
    THEN CHOOSE o \in Objects : contains_addr(o, addr)
    ELSE None

----------------------------------------------------------------------------
(* Python helpers *)

Abs(x) == IF x < 0 THEN 0 - x ELSE x

\* x & 0xFFF on Python's unbounded integers: the non-negative residue
AndPageMask(x) == x % PageSize

\* self._trace[idx], idx counted from 0
At(tr, idx) == tr[idx + 1]

\* the dict self._aslr_slides
Keys(table) == {table[i][1] : i \in 1..Len(table)}

Get(table, key) == table[CHOOSE i \in 1..Len(table) : table[i][1] = key][2]

\* table[key] = slide: a new key is appended, an old key keeps its position
Put(table, key, slide) ==
    IF key \in Keys(table)
    THEN [i \in 1..Len(table) |-> IF table[i][1] = key THEN <<key, slide>> ELSE table[i]]
    ELSE Append(table, <<key, slide>>)

----------------------------------------------------------------------------
(* _filter_idx and _locate_entry_point *)

\* _filter_idx(angr_addr, idx): TRUE/FALSE; reading trace[idx + 1] past the end
\* of the list raises IndexError, which NextInBounds tells apart
NextInBounds(tr, idx) == idx + 1 < Len(tr)

\* _filter_idx whose fallback accepts a distance of exactly 0x1000
FilterIdxAtLeast(tr, lf, angr_addr, idx) ==
    LET slide == At(tr, idx) - angr_addr
        legal_next == lf[angr_addr]
    IN  IF legal_next # {}
        THEN \E a \in legal_next : a + slide = At(tr, idx + 1)
        ELSE Abs(At(tr, idx) - At(tr, idx + 1)) >= IndirectJumpDistance

FilterIdx(tr, lf, angr_addr, idx) ==
    LET slide == At(tr, idx) - angr_addr
        legal_next == lf[angr_addr]
    IN  IF legal_next # {}
        THEN \E a \in legal_next : a + slide = At(tr, idx + 1)
        ELSE Abs(At(tr, idx) - At(tr, idx + 1)) > IndirectJumpDistance

\* the for loop without "idx == 0 or": index 0 is compared with trace[-1],
\* the last element
ScanPassNoFirstIndex(tr, angr_addr, threshold) ==
    {idx \in 0..(Len(tr) - 1) :
        /\ AndPageMask(At(tr, idx) - angr_addr) = 0
        /\ Abs(At(tr, IF idx = 0 THEN Len(tr) - 1 ELSE idx - 1) - At(tr, idx)) > threshold}

\* the for loop of one pass: the indices it adds to the set
ScanPass(tr, angr_addr, threshold) ==
    {idx \in 0..(Len(tr) - 1) :
        /\ AndPageMask(At(tr, idx) - angr_addr) = 0
        /\ (idx = 0 \/ Abs(At(tr, idx - 1) - At(tr, idx)) > threshold)}

\* the while loop of _locate_entry_point from (indices, threshold) on
RECURSIVE LocateLoop(_, _, _, _, _)
LocateLoop(tr, lf, angr_addr, indices, threshold) ==
    IF ~(indices = {} /\ threshold > StopThreshold)
    THEN [exc |-> "none", indices |-> indices]
    ELSE LET scanned == indices \cup ScanPass(tr, angr_addr, threshold)
         IN  IF \E idx \in scanned : ~NextInBounds(tr, idx)
             THEN [exc |-> "IndexError", indices |-> {}]
             ELSE LocateLoop(tr, lf, angr_addr,
                             {i \in scanned : FilterIdx(tr, lf, angr_addr, i)},
                             threshold \div 2)

LocateEntryPoint(tr, lf, angr_addr) ==
    LocateLoop(tr, lf, angr_addr, {}, StartThreshold)

----------------------------------------------------------------------------
(* _locate_entry_point step by step: phase is the position in its body *)

\* no call of _locate_entry_point is being followed
NoSearch == [phase |-> "idle", angr_addr |-> 0, indices |-> {}, threshold |-> 0,
             thresholds |-> <<>>, verdicts |-> <<>>]

\* lines 32-33: indices = set(), threshold = 0x40000
LocateStart ==
    /\ search.phase = "idle"
    /\ \E angr_addr \in {MainEntry, Init1, Init2} :
          search' = [phase |-> "while", angr_addr |-> angr_addr, indices |-> {},
                     threshold |-> StartThreshold, thresholds |-> <<>>, verdicts |-> <<>>]
    /\ UNCHANGED <<trace, objs, lifter, aslr_slides, pc, status, error, call>>

\* lines 34-37: the loop condition holds and the for loop runs one pass;
\* thresholds keeps the threshold of every pass run
LocateScan ==
    /\ search.phase = "while"
    /\ search.indices = {} /\ search.threshold > StopThreshold
    /\ search' = [search EXCEPT
                    !.phase = "filter",
                    !.indices = search.indices
                                  \cup ScanPass(trace, search.angr_addr, search.threshold),
                    !.thresholds = Append(search.thresholds, search.threshold)]
    /\ UNCHANGED <<trace, objs, lifter, aslr_slides, pc, status, error, call>>

\* lines 39-40: every index goes through _filter_idx, whose read of
\* trace[idx + 1] raises IndexError past the end; verdicts keeps its answers
LocateFilter ==
    /\ search.phase = "filter"
    /\ IF \E idx \in search.indices : ~NextInBounds(trace, idx)
       THEN search' = [search EXCEPT !.phase = "raised"]
       ELSE LET verdicts == [idx \in search.indices |->
                                FilterIdx(trace, lifter, search.angr_addr, idx)]
            IN  search' = [search EXCEPT
                             !.phase = "while",
                             !.verdicts = verdicts,
                             !.indices = {i \in search.indices : verdicts[i]},
                             !.threshold = search.threshold \div 2]
    /\ UNCHANGED <<trace, objs, lifter, aslr_slides, pc, status, error, call>>

\* lines 34, 42: the loop condition fails, indices is returned
LocateReturn ==
    /\ search.phase = "while"
    /\ ~(search.indices = {} /\ search.threshold > StopThreshold)
    /\ search' = [search EXCEPT !.phase = "returned"]
    /\ UNCHANGED <<trace, objs, lifter, aslr_slides, pc, status, error, call>>

----------------------------------------------------------------------------
(* _identify_aslr_slides: one iteration of its loop over all_objects *)

\* obj.initializers + ([obj.entry] if obj.is_main_bin else [])
EntryAddrs(o, obj) ==
    o[obj].initializers \o (IF is_main_bin(obj) THEN <<entry(obj)>> ELSE <<>>)

\* slides = {self._trace[idx] - entry for idx in indices}
SlidesOf(tr, lf, e) ==
    {At(tr, idx) - e : idx \in LocateEntryPoint(tr, lf, e).indices}

\* possibilities seeded by the first entry address and never narrowed
PossibilitiesFirstOnly(tr, lf, es) == SlidesOf(tr, lf, es[1])

\* possibilities after the loop over the entry addresses es (a non-empty sequence)
RECURSIVE Possibilities(_, _, _)
Possibilities(tr, lf, es) ==
    IF Len(es) = 1
    THEN SlidesOf(tr, lf, es[1])
    ELSE Possibilities(tr, lf, SubSeq(es, 1, Len(es) - 1)) \cap SlidesOf(tr, lf, es[Len(es)])

\* Heuristic3 with the ambiguity check lost: any of several possibilities is taken
Heuristic3PicksOne(tr, lf, o, obj) ==
    LET es == EntryAddrs(o, obj)
    IN  IF es = <<>> THEN [kind |-> "skip", slide |-> 0]
        ELSE IF \E i \in 1..Len(es) : LocateEntryPoint(tr, lf, es[i]).exc = "IndexError"
        THEN [kind |-> "IndexError", slide |-> 0]
        ELSE LET possibilities == Possibilities(tr, lf, es)
             IN  IF possibilities = {} THEN [kind |-> "AmbiguousOrAbsentTrace", slide |-> 0]
                 ELSE [kind |-> "slide", slide |-> CHOOSE s \in possibilities : TRUE]

\* Heuristic3 with "if not possibilities: continue": an empty set is skipped
Heuristic3SkipsEmpty(tr, lf, o, obj) ==
    LET es == EntryAddrs(o, obj)
    IN  IF es = <<>> THEN [kind |-> "skip", slide |-> 0]
        ELSE IF \E i \in 1..Len(es) : LocateEntryPoint(tr, lf, es[i]).exc = "IndexError"
        THEN [kind |-> "IndexError", slide |-> 0]
        ELSE LET possibilities == Possibilities(tr, lf, es)
             IN  IF possibilities = {} THEN [kind |-> "skip", slide |-> 0]
                 ELSE IF Cardinality(possibilities) = 1
                 THEN [kind |-> "slide", slide |-> CHOOSE s \in possibilities : TRUE]
                 ELSE [kind |-> "AmbiguousSlide", slide |-> 0]

\* Heuristic3 with possibilities seeded by set() instead of None: an object
\* without entry addresses raises like one with no candidate
Heuristic3RaisesOnNone(tr, lf, o, obj) ==
    LET es == EntryAddrs(o, obj)
    IN  IF es = <<>> THEN [kind |-> "AmbiguousOrAbsentTrace", slide |-> 0]
        ELSE IF \E i \in 1..Len(es) : LocateEntryPoint(tr, lf, es[i]).exc = "IndexError"
        THEN [kind |-> "IndexError", slide |-> 0]
        ELSE LET possibilities == Possibilities(tr, lf, es)
             IN  IF possibilities = {} THEN [kind |-> "AmbiguousOrAbsentTrace", slide |-> 0]
                 ELSE IF Cardinality(possibilities) = 1
                 THEN [kind |-> "slide", slide |-> CHOOSE s \in possibilities : TRUE]
                 ELSE [kind |-> "AmbiguousSlide", slide |-> 0]

\* the outcome of heuristic 3 for obj: "skip" (possibilities is None), an
\* exception, or "slide" with the single possibility
Heuristic3(tr, lf, o, obj) ==
    LET es == EntryAddrs(o, obj)
    IN  IF es = <<>> THEN [kind |-> "skip", slide |-> 0]
        ELSE IF \E i \in 1..Len(es) : LocateEntryPoint(tr, lf, es[i]).exc = "IndexError"
        THEN [kind |-> "IndexError", slide |-> 0]
        ELSE LET possibilities == Possibilities(tr, lf, es)
             IN  IF possibilities = {} THEN [kind |-> "AmbiguousOrAbsentTrace", slide |-> 0]
                 ELSE IF Cardinality(possibilities) = 1
                 THEN [kind |-> "slide", slide |-> CHOOSE s \in possibilities : TRUE]
                 ELSE [kind |-> "AmbiguousSlide", slide |-> 0]

\* IdentifyObject with heuristic 1 lost: a non-PIC object is searched like any other
IdentifyObjectNoPicRule(tr, lf, o, obj) ==
    IF IsPseudoObject(obj) THEN [kind |-> "skip", slide |-> 0]
    ELSE IF o[obj].custom_base_addr THEN [kind |-> "slide", slide |-> 0]
    ELSE Heuristic3(tr, lf, o, obj)

\* IdentifyObject with heuristic 2 lost: a pinned object is searched like any other
IdentifyObjectNoPinRule(tr, lf, o, obj) ==
    IF IsPseudoObject(obj) THEN [kind |-> "skip", slide |-> 0]
    ELSE IF ~o[obj].pic THEN [kind |-> "slide", slide |-> 0]
    ELSE Heuristic3(tr, lf, o, obj)

\* the outcome of one loop iteration for obj
IdentifyObject(tr, lf, o, obj) ==
    IF IsPseudoObject(obj) THEN [kind |-> "skip", slide |-> 0]
    ELSE IF ~o[obj].pic THEN [kind |-> "slide", slide |-> 0]
    ELSE IF o[obj].custom_base_addr THEN [kind |-> "slide", slide |-> 0]
    ELSE Heuristic3(tr, lf, o, obj)

NoError == [exc |-> "none", obj |-> None]

IdentifyStep ==
    /\ status = "init"
    /\ pc <= Len(all_objects)
    /\ LET obj == all_objects[pc]
           r == IdentifyObject(trace, lifter, objs, obj)
       IN  CASE r.kind = "skip" ->
                    /\ aslr_slides' = aslr_slides
                    /\ pc' = pc + 1
                    /\ UNCHANGED <<status, error>>
             [] r.kind = "slide" ->
                    /\ aslr_slides' = Put(aslr_slides, obj, r.slide)
                    /\ pc' = pc + 1
                    /\ UNCHANGED <<status, error>>
             [] OTHER ->
                    /\ status' = "failed"
                    /\ error' = [exc |-> r.kind, obj |-> obj]
                    /\ UNCHANGED <<aslr_slides, pc>>
    /\ UNCHANGED <<trace, objs, lifter, call, search>>

\* the loop is over: __init__ returns
IdentifyDone ==
    /\ status = "init"
    /\ pc > Len(all_objects)
    /\ status' = "ready"
    /\ UNCHANGED <<trace, objs, lifter, aslr_slides, pc, error, call, search>>

----------------------------------------------------------------------------
(* translate_state_addr, translate_trace_addr, compare_addr *)

Returned(v) == [exc |-> "none", addr |-> v, bool |-> FALSE]

ReturnedBool(b) == [exc |-> "none", addr |-> 0, bool |-> b]

Raised(e) == [exc |-> e, addr |-> 0, bool |-> FALSE]

\* translate_state_addr with self._aslr_slides.get(obj, 0): an object without a
\* slide translates as if its slide were 0
TranslateStateAddrDefaultsZero(table, state_addr, obj0) ==
    LET obj == IF obj0 = None THEN find_object_containing(state_addr) ELSE obj0
    IN  IF obj \notin Keys(table)
        THEN Returned(state_addr)
        ELSE Returned(state_addr + Get(table, obj))

\* translate_state_addr(state_addr, obj): obj = None when the argument is omitted
TranslateStateAddr(table, state_addr, obj0) ==
    LET obj == IF obj0 = None THEN find_object_containing(state_addr) ELSE obj0
    IN  IF obj \notin Keys(table)
        THEN Raised("UnresolvedModule")
        ELSE Returned(state_addr + Get(table, obj))

\* the for/else of translate_trace_addr from item i of the dict on: the object
\* the loop breaks at, "NotFound" for the else branch, or "AttributeError" when
\* the key is None, which has no contains_addr
RECURSIVE InferObject(_, _, _)
InferObject(table, trace_addr, i) ==
    IF i > Len(table) THEN "NotFound"
    ELSE IF table[i][1] = None THEN "AttributeError"
    ELSE IF contains_addr(table[i][1], trace_addr - table[i][2]) THEN table[i][1]
    ELSE InferObject(table, trace_addr, i + 1)

TranslateTraceAddr(table, trace_addr, obj0) ==
    LET obj == IF obj0 = None THEN InferObject(table, trace_addr, 1) ELSE obj0
    IN  IF obj = "NotFound" THEN Raised("NoOwningModule")
        ELSE IF obj = "AttributeError" THEN Raised("AttributeError")
        ELSE IF obj \notin Keys(table) THEN Raised("UnresolvedModule")
        ELSE Returned(trace_addr - Get(table, obj))

\* compare_addr with the page test before the lookup: a page-aligned mismatch
\* on a resolved object overwrites its slide
CompareAddrOverwrites(table, trace_addr, state_addr) ==
    LET current_bin == find_object_containing(state_addr)
    IN  IF current_bin = extern_object \/ current_bin = kernel_object
        THEN [res |-> ReturnedBool(FALSE), table |-> table]
        ELSE IF AndPageMask(trace_addr - state_addr) = 0
        THEN [res |-> ReturnedBool(TRUE),
              table |-> Put(table, current_bin, trace_addr - state_addr)]
        ELSE IF current_bin \in Keys(table)
        THEN [res |-> ReturnedBool(trace_addr = state_addr + Get(table, current_bin)),
              table |-> table]
        ELSE IF current_bin # None
        THEN [res |-> Raised("TraceDesyncObject"), table |-> table]
        ELSE [res |-> Raised("TraceDesyncUnmapped"), table |-> table]

\* compare_addr comparing the raw addresses of a resolved object, its slide forgotten
CompareAddrIgnoresSlide(table, trace_addr, state_addr) ==
    LET current_bin == find_object_containing(state_addr)
    IN  IF current_bin = extern_object \/ current_bin = kernel_object
        THEN [res |-> ReturnedBool(FALSE), table |-> table]
        ELSE IF current_bin \in Keys(table)
        THEN [res |-> ReturnedBool(trace_addr = state_addr), table |-> table]
        ELSE IF AndPageMask(trace_addr - state_addr) = 0
        THEN [res |-> ReturnedBool(TRUE),
              table |-> Put(table, current_bin, trace_addr - state_addr)]
        ELSE IF current_bin # None
        THEN [res |-> Raised("TraceDesyncObject"), table |-> table]
        ELSE [res |-> Raised("TraceDesyncUnmapped"), table |-> table]

\* compare_addr without the test for the extern and kernel objects
CompareAddrNoPseudoTest(table, trace_addr, state_addr) ==
    LET current_bin == find_object_containing(state_addr)
    IN  IF current_bin \in Keys(table)
        THEN [res |-> ReturnedBool(trace_addr = state_addr + Get(table, current_bin)),
              table |-> table]
        ELSE IF AndPageMask(trace_addr - state_addr) = 0
        THEN [res |-> ReturnedBool(TRUE),
              table |-> Put(table, current_bin, trace_addr - state_addr)]
        ELSE IF current_bin # None
        THEN [res |-> Raised("TraceDesyncObject"), table |-> table]
        ELSE [res |-> Raised("TraceDesyncUnmapped"), table |-> table]

\* compare_addr that accepts a page-aligned first match without storing its slide
CompareAddrRecordsNothing(table, trace_addr, state_addr) ==
    LET current_bin == find_object_containing(state_addr)
    IN  IF current_bin = extern_object \/ current_bin = kernel_object
        THEN [res |-> ReturnedBool(FALSE), table |-> table]
        ELSE IF current_bin \in Keys(table)
        THEN [res |-> ReturnedBool(trace_addr = state_addr + Get(table, current_bin)),
              table |-> table]
        ELSE IF AndPageMask(trace_addr - state_addr) = 0
        THEN [res |-> ReturnedBool(TRUE), table |-> table]
        ELSE IF current_bin # None
        THEN [res |-> Raised("TraceDesyncObject"), table |-> table]
        ELSE [res |-> Raised("TraceDesyncUnmapped"), table |-> table]

\* compare_addr without the page test: any first difference is stored
CompareAddrNoPageTest(table, trace_addr, state_addr) ==
    LET current_bin == find_object_containing(state_addr)
    IN  IF current_bin = extern_object \/ current_bin = kernel_object
        THEN [res |-> ReturnedBool(FALSE), table |-> table]
        ELSE IF current_bin \in Keys(table)
        THEN [res |-> ReturnedBool(trace_addr = state_addr + Get(table, current_bin)),
              table |-> table]
        ELSE [res |-> ReturnedBool(TRUE),
              table |-> Put(table, current_bin, trace_addr - state_addr)]

\* compare_addr(trace_addr, state_addr): the result and the dict afterwards
CompareAddr(table, trace_addr, state_addr) ==
    LET current_bin == find_object_containing(state_addr)
    IN  IF current_bin = extern_object \/ current_bin = kernel_object
        THEN [res |-> ReturnedBool(FALSE), table |-> table]
        ELSE IF current_bin \in Keys(table)
        THEN [res |-> ReturnedBool(trace_addr = state_addr + Get(table, current_bin)),
              table |-> table]
        ELSE IF AndPageMask(trace_addr - state_addr) = 0
        THEN [res |-> ReturnedBool(TRUE),
              table |-> Put(table, current_bin, trace_addr - state_addr)]
        ELSE IF current_bin # None
        THEN [res |-> Raised("TraceDesyncObject"), table |-> table]
        ELSE [res |-> Raised("TraceDesyncUnmapped"), table |-> table]

NoCall == [op |-> "none", trace_addr |-> 0, state_addr |-> 0, obj |-> None,
           res |-> Returned(0)]

\* the arguments the callers pass
CallTraceAddrs == {86016, 7360512, 7360528}         \* 0x15000, 0x705000, 0x705010

CallStateAddrs == {7340032, 7360512, 8388608, 8454144, 9437184}
                  \* lib 0x700000, lib 0x705000, extern, kernel, unmapped 0x900000

CallObjs == {None, "lib"}

DoTranslateStateAddr ==
    /\ status = "ready"
    /\ \E state_addr \in CallStateAddrs, obj \in CallObjs :
          call' = [op |-> "translate_state_addr", trace_addr |-> 0,
                   state_addr |-> state_addr, obj |-> obj,
                   res |-> TranslateStateAddr(aslr_slides, state_addr, obj)]
    /\ UNCHANGED <<trace, objs, lifter, aslr_slides, pc, status, error, search>>

DoTranslateTraceAddr ==
    /\ status = "ready"
    /\ \E trace_addr \in CallTraceAddrs, obj \in CallObjs :
          call' = [op |-> "translate_trace_addr", trace_addr |-> trace_addr,
                   state_addr |-> 0, obj |-> obj,
                   res |-> TranslateTraceAddr(aslr_slides, trace_addr, obj)]
    /\ UNCHANGED <<trace, objs, lifter, aslr_slides, pc, status, error, search>>

DoCompareAddr ==
    /\ status = "ready"
    /\ \E trace_addr \in CallTraceAddrs, state_addr \in CallStateAddrs :
          LET r == CompareAddr(aslr_slides, trace_addr, state_addr)
          IN  /\ call' = [op |-> "compare_addr", trace_addr |-> trace_addr,
                          state_addr |-> state_addr, obj |-> None, res |-> r.res]
              /\ aslr_slides' = r.table
    /\ UNCHANGED <<trace, objs, lifter, pc, status, error, search>>

----------------------------------------------------------------------------
(* The inputs: the trace, the loader's attributes, the lifter's answers *)

TraceAddrs == {65536, 86016, 86032, 331776}     \* 0x10000, 0x15000, 0x15010, 0x51000

RECURSIVE SeqsUpTo(_, _)
SeqsUpTo(S, n) ==
    IF n = 0 THEN {<<>>}
    ELSE LET shorter == SeqsUpTo(S, n - 1)
         IN  shorter \cup {Append(s, x) : s \in {t \in shorter : Len(t) = n - 1}, x \in S}

\* the trace [0x1000, 0x2004, 0x30000]
ScenarioTrace == <<4096, 8196, 196608>>

\* a trace on which two initializers of lib both fire: [0x15010, 0x51000, 0x15000, 0x10000]
TwoEntryTrace == <<86032, 331776, 86016, 65536>>

\* a trace whose second element is exactly 0x1000 after the first: [0x10000, 0x11000]
BoundaryTrace == <<65536, 69632>>

Traces == SeqsUpTo(TraceAddrs, MaxTraceLen) \cup {ScenarioTrace, TwoEntryTrace, BoundaryTrace}

SessionTraces == SeqsUpTo(TraceAddrs, MaxSessionTraceLen) \cup {ScenarioTrace}

EntryAddresses == {MainEntry, Init1, Init2}

Lifters == {[e \in EntryAddresses |-> IF e = Init1 THEN s ELSE {}] : s \in {{}, {Init2}}}

\* cle builds its pseudo-objects position-independent, unpinned, without initializers
PseudoAttrs == [pic |-> TRUE, custom_base_addr |-> FALSE, initializers |-> <<>>]

MainAttrs == [pic : BOOLEAN, custom_base_addr : {FALSE}, initializers : {<<>>}]

LibAttrs == [pic : BOOLEAN, custom_base_addr : BOOLEAN,
             initializers : {<<>>, <<Init1>>, <<Init1, Init2>>}]

InitWith(traces) ==
    /\ trace \in traces
    /\ \E m \in MainAttrs, b \in LibAttrs :
          objs = [o \in Objects |-> CASE o = "main" -> m
                                      [] o = "lib"  -> b
                                      [] OTHER      -> PseudoAttrs]
    /\ lifter \in Lifters
    /\ aslr_slides = <<>>
    /\ pc = 1
    /\ status = "init"
    /\ error = NoError
    /\ call = NoCall
    /\ search = NoSearch

\* the whole life of a detector: its construction, then any calls of its methods
Init == InitWith(SessionTraces)

Next ==
    \/ IdentifyStep
    \/ IdentifyDone
    \/ DoTranslateStateAddr
    \/ DoTranslateTraceAddr
    \/ DoCompareAddr

Spec == Init /\ [][Next]_vars

\* the construction alone, on the longer traces
InitResolve == InitWith(Traces)

NextResolve ==
    \/ IdentifyStep
    \/ IdentifyDone

SpecResolve == InitResolve /\ [][NextResolve]_vars

\* one call of _locate_entry_point alone, on the longer traces
InitSearch ==
    /\ trace \in Traces
    /\ lifter \in Lifters
    /\ objs = [o \in Objects |-> PseudoAttrs]
    /\ aslr_slides = <<>>
    /\ pc = 1
    /\ status = "init"
    /\ error = NoError
    /\ call = NoCall
    /\ search = NoSearch

NextSearch ==
    \/ LocateStart
    \/ LocateScan
    \/ LocateFilter
    \/ LocateReturn

SpecSearch == InitSearch /\ [][NextSearch]_vars

----------------------------------------------------------------------------
(* Vocabulary of the properties *)

\* the loop of _identify_aslr_slides has finished the iteration of all_objects[i]
\* without raising
Processed(i) == pc > i

\* the iteration of all_objects[i] raised
FailedAt(i) == status = "failed" /\ pc = i

HasSlide(obj) == obj \in Keys(aslr_slides)

\* heuristic 3 is what decides obj: a real, position-independent, unpinned object
Searched(obj) ==
    ~IsPseudoObject(obj) /\ objs[obj].pic /\ ~objs[obj].custom_base_addr

EntrySet(obj) == {EntryAddrs(objs, obj)[i] : i \in 1..Len(EntryAddrs(objs, obj))}

\* the thresholds the while loop of _locate_entry_point can run a pass at
RECURSIVE ThresholdsFrom(_)
ThresholdsFrom(t) == IF t > StopThreshold THEN {t} \cup ThresholdsFrom(t \div 2) ELSE {}

Thresholds == ThresholdsFrom(StartThreshold)

\* the indices a pass at threshold t scans and the validator accepts
Accepted(e, t) ==
    {idx \in ScanPass(trace, e, t) :
        NextInBounds(trace, idx) /\ FilterIdx(trace, lifter, e, idx)}

\* offset s fires for entry address e at some threshold the search can use
FiresAtSomeThreshold(e, s) ==
    \E t \in Thresholds : \E idx \in Accepted(e, t) : At(trace, idx) = e + s

\* the pass at threshold t is the one the search for e returns from: every
\* earlier pass validated nothing, this one validates something, and no pass up
\* to it read past the end of the trace
ReturningPass(e, t) ==
    /\ t \in Thresholds
    /\ \A u \in Thresholds : u > t => Accepted(e, u) = {}
    /\ Accepted(e, t) # {}
    /\ \A u \in Thresholds : u >= t =>
          \A idx \in ScanPass(trace, e, u) : NextInBounds(trace, idx)

\* offset s is in the candidate-slide set the search for e returns
FiresInReturnedSet(e, s) ==
    \E t \in Thresholds :
        ReturningPass(e, t) /\ \E idx \in Accepted(e, t) : At(trace, idx) = e + s

Offsets(obj) == {At(trace, idx) - e : idx \in 0..(Len(trace) - 1), e \in EntrySet(obj)}

ObjectIndexes == 1..Len(all_objects)

----------------------------------------------------------------------------
(* Properties *)

\* C1: once the loop of _identify_aslr_slides has passed a non-PIC object, the
\* object has slide 0 in the table, whatever the trace is; such an object is
\* never the one the search fails on.
C1_NonPicSlideZero ==
    \A i \in ObjectIndexes :
        LET obj == all_objects[i]
        IN  ~objs[obj].pic =>
              /\ ~FailedAt(i)
              /\ Processed(i) => HasSlide(obj) /\ Get(aslr_slides, obj) = 0

\* C1 witness: the detector is built on the trace [0x1000, 0x2004, 0x30000]; lib is
\* non-PIC with an initializer the search would place at a non-zero slide, and
\* its slide is 0.
C1_Witness ==
    /\ status = "ready"
    /\ trace = ScenarioTrace
    /\ ~objs["lib"].pic /\ ~objs["lib"].custom_base_addr
    /\ objs["lib"].initializers = <<Init1>>
    /\ Heuristic3(trace, lifter, objs, "lib").kind = "slide"
    /\ Heuristic3(trace, lifter, objs, "lib").slide # 0
    /\ HasSlide("lib") /\ Get(aslr_slides, "lib") = 0

\* C2: once the loop of _identify_aslr_slides has passed an object with a custom
\* base address, the object has slide 0 in the table, whatever the trace and its
\* initializers are; such an object is never the one the search fails on.
C2_PinnedSlideZero ==
    \A i \in ObjectIndexes :
        LET obj == all_objects[i]
        IN  objs[obj].custom_base_addr =>
              /\ ~FailedAt(i)
              /\ Processed(i) => HasSlide(obj) /\ Get(aslr_slides, obj) = 0

\* C2 witness: lib is position-independent and pinned, has two initializers
\* the search would raise on, and its slide is 0.
C2_Witness ==
    /\ status = "ready"
    /\ objs["lib"].pic /\ objs["lib"].custom_base_addr
    /\ objs["lib"].initializers = <<Init1, Init2>>
    /\ Heuristic3(trace, lifter, objs, "lib").kind \notin {"slide", "skip"}
    /\ HasSlide("lib") /\ Get(aslr_slides, "lib") = 0

\* two offsets each fire, for every entry address of obj, at some threshold
TwoOffsetsFire(obj) ==
    \E s1, s2 \in Offsets(obj) :
        /\ s1 # s2
        /\ \A e \in EntrySet(obj) :
              FiresAtSomeThreshold(e, s1) /\ FiresAtSomeThreshold(e, s2)

\* two offsets are each in the returned candidate-slide set of every entry address
TwoOffsetsReturned(obj) ==
    \E s1, s2 \in Offsets(obj) :
        /\ s1 # s2
        /\ \A e \in EntrySet(obj) :
              FiresInReturnedSet(e, s1) /\ FiresInReturnedSet(e, s2)

FailsWith(i, exc) ==
    /\ FailedAt(i)
    /\ error = [exc |-> exc, obj |-> all_objects[i]]
    /\ ~HasSlide(all_objects[i])

\* C3 as stated: a searched object for which two offsets each fire for every
\* entry address at some usable threshold fails with AmbiguousSlide.
C3_Original ==
    \A i \in ObjectIndexes :
        LET obj == all_objects[i]
        IN  (Searched(obj) /\ EntrySet(obj) # {} /\ TwoOffsetsFire(obj)
                /\ (Processed(i) \/ FailedAt(i)))
            => FailsWith(i, "AmbiguousSlide")

\* C3 amended: a searched object for which two different offsets are each in
\* the candidate-slide set the adaptive search returns for every entry address
\* (the set of the first pass that validates anything) fails with
\* AmbiguousSlide, and no slide is recorded for it.
C3_AmbiguousSlide ==
    \A i \in ObjectIndexes :
        LET obj == all_objects[i]
        IN  (Searched(obj) /\ EntrySet(obj) # {} /\ TwoOffsetsReturned(obj)
                /\ (Processed(i) \/ FailedAt(i)))
            => FailsWith(i, "AmbiguousSlide")

\* C3 witness: lib, searched on its initializer, failed with AmbiguousSlide on
\* two offsets the search returned.
C3_Witness ==
    /\ Searched("lib") /\ objs["lib"].initializers # <<>>
    /\ TwoOffsetsReturned("lib")
    /\ FailsWith(2, "AmbiguousSlide")

\* C4: a searched object with entry addresses fails with AmbiguousOrAbsentTrace,
\* and gets no slide, when no trace element is page-congruent to any of its
\* entry addresses, and when the candidate-slide sets its searches return have
\* an empty intersection.
NoCongruentElement(obj) ==
    \A e \in EntrySet(obj) : \A idx \in 0..(Len(trace) - 1) :
        AndPageMask(At(trace, idx) - e) # 0

SearchesReturn(obj) ==
    \A e \in EntrySet(obj) : LocateEntryPoint(trace, lifter, e).exc = "none"

EmptyIntersection(obj) ==
    /\ SearchesReturn(obj)
    /\ ~\E s \in Offsets(obj) : \A e \in EntrySet(obj) : FiresInReturnedSet(e, s)

C4_AbsentTrace ==
    \A i \in ObjectIndexes :
        LET obj == all_objects[i]
        IN  (Searched(obj) /\ EntrySet(obj) # {}
                /\ (NoCongruentElement(obj) \/ EmptyIntersection(obj))
                /\ (Processed(i) \/ FailedAt(i)))
            => FailsWith(i, "AmbiguousOrAbsentTrace")

\* C4 witness: lib has two initializers, each with a non-empty returned
\* candidate set, the two sets are disjoint, and lib failed with
\* AmbiguousOrAbsentTrace.
C4_Witness ==
    /\ Searched("lib") /\ Len(objs["lib"].initializers) = 2
    /\ EmptyIntersection("lib")
    /\ \A e \in EntrySet("lib") : \E s \in Offsets("lib") : FiresInReturnedSet(e, s)
    /\ FailsWith(2, "AmbiguousOrAbsentTrace")

----------------------------------------------------------------------------
(* Properties of the methods of the constructed detector *)

\* a step that calls compare_addr; call' holds its arguments and its outcome,
\* aslr_slides the table before it and aslr_slides' the table after it
IsCompare == call'.op = "compare_addr"

\* the object compare_addr looks up for the state address of the call
ComparedBin == find_object_containing(call'.state_addr)

IsTraceDesync(exc) == exc \in {"TraceDesyncObject", "TraceDesyncUnmapped"}

\* a few addresses of the trace-space range of obj: its first, one inside, its last
TraceRange(obj) ==
    {x + Get(aslr_slides, obj) : x \in {min_addr(obj), min_addr(obj) + 16, max_addr(obj) - 1}}

\* C5 as stated: in every table reachable by the constructor and compare_addr
\* calls, for every object with a slide and every trace address a in its range,
\* with the object inferred in each call, to_model(a) succeeds,
\* to_trace(to_model(a)) = a and to_model(to_trace(to_model(a))) = to_model(a).
C5_RoundTrip ==
    status = "ready" =>
        \A obj \in Keys(aslr_slides) \ {None} : \A a \in TraceRange(obj) :
            LET m == TranslateTraceAddr(aslr_slides, a, None)
                t == TranslateStateAddr(aslr_slides, m.addr, None)
            IN  /\ m.exc = "none"
                /\ t = Returned(a)
                /\ TranslateTraceAddr(aslr_slides, t.addr, None) = m

\* C6: no step removes a key of the slide table or changes the slide of a key.
C6_TableOnlyGrows ==
    [][\A key \in Keys(aslr_slides) :
          key \in Keys(aslr_slides') /\ Get(aslr_slides', key) = Get(aslr_slides, key)]_vars

\* C6 witness: lib got its slide from a compare_addr call, and a later
\* compare_addr call on lib with another page-aligned difference returned False.
C6_Witness ==
    /\ status = "ready"
    /\ Searched("lib") /\ objs["lib"].initializers = <<>>
    /\ HasSlide("lib")
    /\ call.op = "compare_addr" /\ call.res = ReturnedBool(FALSE)
    /\ find_object_containing(call.state_addr) = "lib"
    /\ AndPageMask(call.trace_addr - call.state_addr) = 0

\* C7: compare_addr on a state address of a real object that has slide S
\* returns (trace_addr - state_addr = S), raises nothing and leaves the table
\* as it was.
C7_CompareResolved ==
    [][(IsCompare /\ ComparedBin \in Objects \ {extern_object, kernel_object}
          /\ ComparedBin \in Keys(aslr_slides))
       => /\ call'.res = ReturnedBool(call'.trace_addr - call'.state_addr
                                        = Get(aslr_slides, ComparedBin))
          /\ aslr_slides' = aslr_slides]_vars

\* C7 witness: the search gave lib a non-zero slide, and compare_addr
\* returned True on a pair of addresses that differ by it.
C7_Witness ==
    /\ status = "ready"
    /\ Searched("lib") /\ objs["lib"].initializers # <<>>
    /\ HasSlide("lib") /\ Get(aslr_slides, "lib") # 0
    /\ call.op = "compare_addr" /\ call.res = ReturnedBool(TRUE)
    /\ find_object_containing(call.state_addr) = "lib"

\* C8 as stated: compare_addr with a difference that is not page-aligned, on a
\* state address whose object has no slide (and is not extern or kernel) or
\* that no object contains, raises TraceDesync and leaves the table as it was.
C8_Desync ==
    [][(IsCompare /\ AndPageMask(call'.trace_addr - call'.state_addr) # 0
          /\ \/ ComparedBin = None
             \/ /\ ComparedBin \notin {extern_object, kernel_object}
                /\ ComparedBin \notin Keys(aslr_slides))
       => /\ IsTraceDesync(call'.res.exc)
          /\ aslr_slides' = aslr_slides]_vars

\* C9: compare_addr on a state address of the extern or the kernel object
\* returns False and leaves the table as it was.
C9_ComparePseudo ==
    [][(IsCompare /\ ComparedBin \in {extern_object, kernel_object})
       => /\ call'.res = ReturnedBool(FALSE)
          /\ aslr_slides' = aslr_slides]_vars

\* C9 witness: compare_addr returned False on an extern address at a
\* page-aligned difference, with the extern object absent from the table.
C9_Witness ==
    /\ status = "ready"
    /\ call.op = "compare_addr" /\ call.res = ReturnedBool(FALSE)
    /\ find_object_containing(call.state_addr) = extern_object
    /\ AndPageMask(call.trace_addr - call.state_addr) = 0
    /\ ~HasSlide(extern_object)

\* a step that calls translate_state_addr with obj omitted
IsToTrace == call'.op = "translate_state_addr" /\ call'.obj = None

ToTraceBin == find_object_containing(call'.state_addr)

\* C10 as stated: translate_state_addr with obj omitted raises NoOwningModule
\* when no object contains the address, and UnresolvedModule when the owning
\* object has no slide; either way the table is as it was.
C10_Original ==
    [][IsToTrace =>
         /\ ToTraceBin = None =>
               call'.res = Raised("NoOwningModule") /\ aslr_slides' = aslr_slides
         /\ (ToTraceBin # None /\ ToTraceBin \notin Keys(aslr_slides)) =>
               call'.res = Raised("UnresolvedModule") /\ aslr_slides' = aslr_slides]_vars

\* C10 amended: translate_state_addr with obj omitted raises one and the same
\* exception, UnresolvedModule, whenever what the containment lookup returns
\* (an object, or None) is not a key of the slide table; it returns no address
\* and the table is as it was.
C10_ToTraceUnresolved ==
    [][(IsToTrace /\ ToTraceBin \notin Keys(aslr_slides))
       => /\ call'.res = Raised("UnresolvedModule")
          /\ aslr_slides' = aslr_slides]_vars

\* C10 witness: translate_state_addr raised UnresolvedModule on an address no
\* object contains, while lib, in the table, translates.
C10_Witness ==
    /\ status = "ready"
    /\ call.op = "translate_state_addr" /\ call.obj = None
    /\ find_object_containing(call.state_addr) = None
    /\ call.res = Raised("UnresolvedModule")
    /\ ~HasSlide(None)

\* C11: compare_addr on a state address of a real object (not extern, not
\* kernel): when the object has no slide and the difference is page-aligned,
\* the call stores the difference as the object's slide, adds nothing else and
\* returns True; when the object has a slide, the call returns whether the
\* difference equals it and stores nothing, so a slide is stored at most once.
C11_SelfHealing ==
    [][(IsCompare /\ ComparedBin \in Objects \ {extern_object, kernel_object})
       => LET diff == call'.trace_addr - call'.state_addr
          IN  /\ (ComparedBin \notin Keys(aslr_slides) /\ AndPageMask(diff) = 0)
                    => /\ call'.res = ReturnedBool(TRUE)
                       /\ aslr_slides' = Append(aslr_slides, <<ComparedBin, diff>>)
              /\ ComparedBin \in Keys(aslr_slides)
                    => /\ call'.res = ReturnedBool(diff = Get(aslr_slides, ComparedBin))
                       /\ aslr_slides' = aslr_slides]_vars

\* C11 witness: lib, left without a slide by the constructor, got the slide
\* 0x5000 from a compare_addr call, and a later compare_addr on lib with the
\* page-aligned difference 0 returned False.
C11_Witness ==
    /\ status = "ready"
    /\ Searched("lib") /\ objs["lib"].initializers = <<>>
    /\ HasSlide("lib") /\ Get(aslr_slides, "lib") = 20480
    /\ call.op = "compare_addr" /\ call.res = ReturnedBool(FALSE)
    /\ call.state_addr = 7360512 /\ call.trace_addr = 7360512

\* C12: the slide S the constructor records for a searched object with entry
\* addresses is in the candidate-slide set the search returns for each of its
\* entry addresses (so some trace index the scanner and the validator accept
\* has trace[i] - e = S), and no other offset is in all of these sets.
C12_ResolvedSlideSound ==
    \A i \in ObjectIndexes :
        LET obj == all_objects[i]
        IN  (Searched(obj) /\ EntrySet(obj) # {} /\ Processed(i))
            => /\ HasSlide(obj)
               /\ \A e \in EntrySet(obj) : FiresInReturnedSet(e, Get(aslr_slides, obj))
               /\ \A s \in Offsets(obj) :
                     (\A e \in EntrySet(obj) : FiresInReturnedSet(e, s))
                        => s = Get(aslr_slides, obj)

\* C12 witness: lib has two initializers; the search returns two candidate
\* slides for the first and one for the second, and lib got the common one.
C12_Witness ==
    /\ Searched("lib") /\ objs["lib"].initializers = <<Init1, Init2>>
    /\ Cardinality(SlidesOf(trace, lifter, Init1)) = 2
    /\ Cardinality(SlidesOf(trace, lifter, Init2)) = 1
    /\ Processed(2) /\ HasSlide("lib")
    /\ Get(aslr_slides, "lib") \in SlidesOf(trace, lifter, Init2)

----------------------------------------------------------------------------
(* Properties of one call of _locate_entry_point *)

\* the thresholds of the five passes, in the order they can run
PassThresholds == <<262144, 131072, 65536, 32768, 16384>>

\* the passes run so far ran at the first thresholds of PassThresholds, in order
RanInOrder ==
    /\ Len(search.thresholds) <= Len(PassThresholds)
    /\ \A k \in 1..Len(search.thresholds) : search.thresholds[k] = PassThresholds[k]

\* the call has ended: it returned or it raised
SearchEnded == search.phase \in {"returned", "raised"}

\* what the call returns is the validated set of its last pass, the first
\* non-empty one, or the empty set after the five passes
ReturnsFirstNonEmpty ==
    LET n == Len(search.thresholds)
    IN  IF search.indices # {}
        THEN /\ n >= 1
             /\ search.indices = Accepted(search.angr_addr, search.thresholds[n])
             /\ \A k \in 1..(n - 1) : Accepted(search.angr_addr, search.thresholds[k]) = {}
        ELSE /\ search.thresholds = PassThresholds
             /\ \A k \in 1..n : Accepted(search.angr_addr, search.thresholds[k]) = {}

\* C13 as stated: on every trace the search runs its passes at 0x40000,
\* 0x20000, 0x10000, 0x8000, 0x4000 in that order, at most five, and ends by
\* returning: the first non-empty validated set, or the empty set after the
\* pass at 0x4000.
C13_SearchSchedule ==
    /\ RanInOrder
    /\ SearchEnded => search.phase = "returned" /\ ReturnsFirstNonEmpty

\* a pass of the for loop has just run: the step from the loop test to the filter
IsScanStep == search.phase = "while" /\ search'.phase = "filter"

\* C14: the indices a pass at threshold T hands to the validator are exactly
\* the i with (trace[i] - e) mod 0x1000 = 0 and (i = 0 or |trace[i-1] - trace[i]| > T),
\* nothing of an earlier pass among them; and no step modifies the trace.
C14_ScanExact ==
    [][/\ trace' = trace
       /\ IsScanStep =>
            search'.indices =
                {i \in 0..(Len(trace) - 1) :
                    /\ (trace[i + 1] - search.angr_addr) % 4096 = 0
                    /\ (i = 0 \/ Abs(trace[i] - trace[i + 1]) > search.threshold)}]_vars

\* C14 witness: a later pass has scanned; it selected an index no earlier pass
\* had selected, left out a page-congruent index whose jump is too short, and
\* the validator had rejected what the pass before selected.
C14_Witness ==
    /\ search.phase = "filter" /\ Len(search.thresholds) >= 2
    /\ \E i \in search.indices : i \notin DOMAIN search.verdicts
    /\ \E i \in 0..(Len(trace) - 1) :
          AndPageMask(At(trace, i) - search.angr_addr) = 0 /\ i \notin search.indices
    /\ \E i \in DOMAIN search.verdicts : ~search.verdicts[i]

\* C15: _filter_idx(angr_addr, idx), with slide = trace[idx] - angr_addr,
\* answers whether some direct jump target t of the block has
\* t + slide = trace[idx + 1] when the block has direct jump targets, and
\* whether |trace[idx] - trace[idx + 1]| > 0x1000 when it has none.
C15_Validate ==
    \A idx \in DOMAIN search.verdicts :
        LET slide == trace[idx + 1] - search.angr_addr
            targets == lifter[search.angr_addr]
        IN  search.verdicts[idx] =
                IF targets # {}
                THEN \E t \in targets : t + slide = trace[idx + 2]
                ELSE Abs(trace[idx + 1] - trace[idx + 2]) > 4096

\* C15 witness: the block has a direct jump target; an index whose next
\* element is further than 0x1000 away but is not the slid target was rejected.
C15_Witness ==
    /\ search.phase # "idle"
    /\ lifter[search.angr_addr] # {}
    /\ \E idx \in DOMAIN search.verdicts :
          /\ ~search.verdicts[idx]
          /\ Abs(At(trace, idx) - At(trace, idx + 1)) > IndirectJumpDistance

\* C18 as stated: for every non-empty trace and every entry address the
\* search ends by returning a set of indices; no read of trace[idx + 1]
\* falls outside the trace.
C18_NoOutOfBounds ==
    (trace # <<>> /\ SearchEnded) => search.phase = "returned"

----------------------------------------------------------------------------
(* Further properties of the constructor and of the slide table *)

\* C16: the loop iteration of a position-independent, unpinned, real object
\* without entry addresses stores nothing, raises nothing and goes on to the
\* next object.
C16_NoEntriesSkipped ==
    [][\A i \in ObjectIndexes :
          (status = "init" /\ pc = i /\ Searched(all_objects[i])
              /\ EntrySet(all_objects[i]) = {})
          => /\ pc' = i + 1
             /\ status' = "init" /\ error' = NoError
             /\ aslr_slides' = aslr_slides]_vars

\* C16 witness: the constructor returned; lib, searched and without
\* initializers, has no slide, while main, searched after a trace that places
\* it, has one.
C16_Witness ==
    /\ status = "ready"
    /\ Searched("lib") /\ objs["lib"].initializers = <<>>
    /\ ~HasSlide("lib")
    /\ Searched("main") /\ HasSlide("main")

\* an address no object contains
UnmappedAddr == CHOOSE a \in CallStateAddrs : find_object_containing(a) = None

\* C17 as stated: every key of the slide table is an object of the loader, and
\* translate_state_addr of an address no object contains raises.
C17_KeysAreObjects ==
    /\ Keys(aslr_slides) \subseteq Objects
    /\ TranslateStateAddr(aslr_slides, UnmappedAddr, None).exc # "none"

\* C19: every slide in the slide table is a multiple of 0x1000.
C19_SlidesPageAligned ==
    \A k \in 1..Len(aslr_slides) : aslr_slides[k][2] % PageSize = 0

\* C19 witness: the table holds a non-zero slide the search found for main and
\* a non-zero slide compare_addr stored for lib.
C19_Witness ==
    /\ status = "ready"
    /\ Searched("main") /\ HasSlide("main") /\ Get(aslr_slides, "main") # 0
    /\ Searched("lib") /\ objs["lib"].initializers = <<>>
    /\ HasSlide("lib") /\ Get(aslr_slides, "lib") # 0

=============================================================================
